---- MODULE Spec2Model ----
(***************************************************************************)
(* ContentReviewLog (main.js, v1.1.1): a poller that logs in, fetches the  *)
(* JSPagesSpecial listing on a timer, diffs it against the last seen       *)
(* {rev, status} per page title, posts the changes to a Discord webhook    *)
(* and writes the snapshot to cache.json.                                  *)
(*                                                                         *)
(* Every handler of the class runs to completion on the node.js event      *)
(* loop, so each handler is one atomic action.  The I/O the handlers start *)
(* (the GET of _poll, the POST of _post, fs.writeFile) is outstanding      *)
(* between the action that starts it and the action of its callback.       *)
(*                                                                         *)
(* main.js holds the class twice: v1.1.1 (lines 1-256) and, after it, the  *)
(* v1.1.0 text (lines 258-479).  The model follows v1.1.1.                 *)
(***************************************************************************)
EXTENDS Naturals, FiniteSets, Sequences, TLC

\* ---------------------------------------------------------------- bounds
\* Highest revision id the upstream serves.
MaxRev == 2
\* Most GET requests of _poll outstanding at once.
MaxInFlight == 2
\* Most fs.writeFile calls, and most webhook POSTs, outstanding at once.
MaxPending == 1

\* ------------------------------------------------------------ data model
\* Keys of data.jsPages (page ids; object keys are strings in JS).
Ids == {"1", "2"}
\* for-in visits integer-like keys in ascending numeric order.
KeyOrder == <<"1", "2">>
\* page_title of the page with a given id (titles are unique per page).
TitleOf == [i \in Ids |-> IF i = "1" THEN "A.js" ELSE "B.js"]
Titles == {TitleOf[i] : i \in Ids}
Revs == 1..MaxRev
\* statusKey values; DATA (main.js:19-23) has display data for three of them.
Status == {"unsubmitted", "awaiting", "live", "rejected"}

\* One element of data.jsPages as _callback reads it.
Page(i, r, s) ==
    [page_title |-> TitleOf[i],
     latestRevision |-> [revisionId |-> r, statusKey |-> s]]

\* The object literal {rev, status} that _callback stores.
Entry(r, s) == [rev |-> r, status |-> s]

EmptyObj == [k \in {} |-> 0]

\* Every data.jsPages value a wiki can serve whose script pages are `ids' and
\* whose reviews go through the statuses `keys': an object keyed by page id.
\* A response without jsPages leaves pages = {} and is the empty object.
ResponsesOf(ids, keys) ==
    UNION { { [i \in S |-> Page(i, rs[i][1], rs[i][2])] :
                rs \in [S -> Revs \X keys] } : S \in SUBSET ids }
\* A wiki with two script pages in any status, and a wiki with one script
\* page that is submitted and approved again and again.
Responses == ResponsesOf(Ids, Status)
Responses1 == ResponsesOf({"1"}, {"awaiting", "live"})

\* Every snapshot {title: {rev, status}} over the titles.
Snapshots ==
    UNION { { [t \in S |-> Entry(rs[t][1], rs[t][2])] :
                rs \in [S -> Revs \X Status] } : S \in SUBSET Titles }

\* JS property read obj[k]: a missing property reads as undefined.
Undefined == [undefined |-> TRUE]
Get(obj, k) == IF k \in DOMAIN obj THEN obj[k] ELSE Undefined
\* JS property write obj[k] = v.
Put(obj, k, v) == [x \in DOMAIN obj \cup {k} |-> IF x = k THEN v ELSE obj[x]]
\* JS truthiness of a value that is an object or undefined.
Truthy(v) == v # Undefined
\* curr.rev > rev: a stored value without a rev property reads undefined, and
\* undefined > rev is false.
RevGt(curr, rev) == "rev" \in DOMAIN curr /\ curr.rev > rev
\* curr.rev !== rev and curr.status !== status, undefined being unequal to
\* every revision id and status key.
RevNe(curr, rev) == "rev" \notin DOMAIN curr \/ curr.rev # rev
StatusNe(curr, status) == "status" \notin DOMAIN curr \/ curr.status # status

\* main.js:17-21: the titles of the embeds by status; there is none for
\* unsubmitted nor for a status outside the enumeration.
DATA == [awaiting |-> "Revision awaiting review",
         live     |-> "Revision approved",
         rejected |-> "Revision rejected"]

\* ------------------------------------------------------------ the diff
\* Mutant of Regressed: the comparison the wrong way round.
RegressedFlipped(curr, rev) == "rev" \in DOMAIN curr /\ curr.rev < rev

\* Mutant of Regressed: the test of main.js:141 left out.
RegressedNever(curr, rev) == FALSE

\* Mutant of Regressed: a fetched revision equal to the stored one counts as
\* stale as well.
RegressedOrEqual(curr, rev) == "rev" \in DOMAIN curr /\ curr.rev >= rev

\* main.js:141: the stored revision is ahead of the fetched one.
Regressed(curr, rev) == RevGt(curr, rev)

\* Mutant of Changed: the stored revision read from a property the entries
\* do not have, so that it differs from every fetched revision.
ChangedWrongField(curr, rev, status) ==
    (RevNe(Undefined, rev) \/ StatusNe(curr, status)) /\ status # "unsubmitted"

\* main.js:145-148: the change is posted to Discord.
Changed(curr, rev, status) ==
    (RevNe(curr, rev) \/ StatusNe(curr, status)) /\ status # "unsubmitted"

\* Keys of pages in the order for-in visits them.  The keys are taken when the
\* loop starts: V8 does not visit a property added during the enumeration,
\* which matters on a cold start, where this._data and pages are one object.
Keys(pages) == SelectSeq(KeyOrder, LAMBDA k : k \in DOMAIN pages)

\* main.js:134-157, the for-in loop of _callback from the key Head(keys) on:
\* obj is this._data, embeds the array built so far, dec the branch taken per
\* title so far.  `returned' is the return of main.js:143, which leaves
\* _callback as a whole.  `threw' is the TypeError of main.js:137 for a record
\* without latestRevision, which leaves _callback as well.
RECURSIVE Loop(_, _, _, _, _)
Loop(pages, keys, obj, embeds, dec) ==
    IF keys = <<>>
    THEN [data |-> obj, embeds |-> embeds, decision |-> dec,
          returned |-> FALSE, threw |-> FALSE]
    ELSE IF "latestRevision" \notin DOMAIN pages[Head(keys)]
    THEN [data |-> obj, embeds |-> embeds, decision |-> dec,
          returned |-> FALSE, threw |-> TRUE]
    ELSE LET page   == pages[Head(keys)]
             title  == page.page_title
             rev    == page.latestRevision.revisionId
             status == page.latestRevision.statusKey
             curr   == Get(obj, title)
         IN  IF Truthy(curr) /\ Regressed(curr, rev)
             THEN [data |-> obj, embeds |-> embeds,
                   decision |-> Put(dec, title, "StaleIgnore"),
                   returned |-> TRUE, threw |-> FALSE]
             ELSE Loop(pages, Tail(keys),
                       Put(obj, title, Entry(rev, status)),
                       IF Truthy(curr) /\ Changed(curr, rev, status)
                       THEN Append(embeds, <<title, rev, status>>)
                       ELSE embeds,
                       Put(dec, title,
                           IF ~Truthy(curr) THEN "Seed"
                           ELSE IF Changed(curr, rev, status) THEN "NotifyUpdate"
                           ELSE "SilentUpdate"))

\* JSON.stringify(this._data) followed by the JSON.parse of require(): a
\* property whose value is undefined is left out of the text, every other
\* property of the model's objects (strings, numbers, nested objects) comes
\* back as it was.
Stringify(obj) == [k \in {x \in DOMAIN obj : obj[x] # Undefined} |-> obj[k]]

\* ---------------------------------------------------------------- state
VARIABLES
    pc,         \* "login" (token request outstanding), "running", "loginFailed"
    _data,      \* this._data: Undefined or the snapshot object
    _interval,  \* this._interval: "unset", "set" (timer armed), "cleared"
    cache,      \* the file cache.json: [state: "absent"|"corrupt"|"json", text]
    fetching,   \* GET requests of _poll outstanding
    writing,    \* texts of the fs.writeFile calls outstanding, oldest first
    posting,    \* webhook POSTs of _post outstanding
    fresh,      \* this process has not handled a response yet
    config,     \* config.json: [wiki, domain, lang]
    _wiki,      \* this._wiki: Undefined or the base URL of the wiki
    last        \* the last handler that ran; for _callback also the response
                \* it got, the embeds it gave to _post, the branch of the
                \* loop each title took, whether the response was the first
                \* this process handled, the requests it started, in the
                \* order of their calls, and whether it ended in a TypeError;
                \* for _discordError the status code of the failure and the
                \* branch that logged it

vars ==
    <<pc, _data, _interval, cache, fetching, writing, posting, fresh, config,
      _wiki, last>>

\* The record of a handler other than _callback.
Did(op) == [op |-> op, pages |-> EmptyObj, embeds |-> <<>>,
            decision |-> EmptyObj, returned |-> FALSE, first |-> FALSE,
            started |-> <<>>, threw |-> FALSE, statusCode |-> 0,
            branch |-> ""]

NoFile == [state |-> "absent", text |-> EmptyObj]
BadFile == [state |-> "corrupt", text |-> EmptyObj]
File(text) == [state |-> "json", text |-> text]

\* config.json.  wiki is the sequence of the labels its text has between
\* dots, so that wiki.includes('.') is Len(wiki) > 1; lang is "" when the key
\* is not set (both are falsy in main.js:69).
Config(wiki, domain, lang) == [wiki |-> wiki, domain |-> domain, lang |-> lang]
\* The configuration of the README (README.md:24-25).
ReadmeConfig == Config(<<"dev">>, "wikia.com", "")
Configs ==
    {Config(w, d, l) :
        w \in {<<"dev">>, <<"community", "pl">>},
        d \in {"wikia.com", "fandom.com", "wikia.org"},
        l \in {"", "pl"}}

\* A URL: its scheme, the labels of its host, the segments of its path.
Url(scheme, host, path) == [scheme |-> scheme, host |-> host, path |-> path]

\* main.js:67-73: the base URL of the wiki.
WikiUrl(cfg) ==
    IF Len(cfg.wiki) > 1
    THEN Url("http", cfg.wiki \o <<cfg.domain>>, <<>>)
    ELSE IF cfg.lang # ""
    THEN Url("https", cfg.wiki \o <<cfg.domain>>, <<cfg.lang>>)
    ELSE Url("https", cfg.wiki \o <<cfg.domain>>, <<>>)

\* main.js:33-50: the constructor posts the login request.  cache.json is one
\* of `files', config.json one of `configs'.
StartWith(files, configs) ==
    /\ pc = "login"
    /\ _data = Undefined
    /\ _interval = "unset"
    /\ cache \in files
    /\ fetching = 0
    /\ writing = <<>>
    /\ posting = 0
    /\ fresh = TRUE
    /\ config \in configs
    /\ _wiki = Undefined
    /\ last = Did("constructor")

Start(files) == StartWith(files, {ReadmeConfig})

\* main.js:100-118: _poll starts one GET.
Poll == fetching' = fetching + 1

\* Mutant of _init: the entries of cache.json are loaded without their
\* revisions.
InitLosesRevisions ==
    /\ pc = "login"
    /\ pc' = "running"
    /\ _data' = IF cache.state = "json"
                THEN [k \in DOMAIN cache.text |->
                        IF "rev" \in DOMAIN cache.text[k]
                        THEN Entry(0, cache.text[k].status)
                        ELSE cache.text[k]]
                ELSE _data
    /\ _interval' = "set"
    /\ Poll
    /\ last' = Did("_init")
    /\ _wiki' = WikiUrl(config)
    /\ UNCHANGED <<cache, writing, posting, fresh, config>>

\* main.js:65-87: _init, the login having succeeded.  require('./cache.json')
\* throws for a missing file and for invalid JSON alike, and the catch leaves
\* this._data unset.  The timer is armed and the first poll is issued at once.
_init ==
    /\ pc = "login"
    /\ pc' = "running"
    /\ _data' = IF cache.state = "json" THEN cache.text ELSE _data
    /\ _interval' = "set"
    /\ Poll
    /\ last' = Did("_init")
    /\ _wiki' = WikiUrl(config)
    /\ UNCHANGED <<cache, writing, posting, fresh, config>>

\* Mutant of _loginFail: the rejection is handled ahead of _init in the
\* promise chain, so the timer is armed and the first poll issued all the same.
LoginFailThenInit ==
    /\ pc = "login"
    /\ pc' = "loginFailed"
    /\ _interval' = "set"
    /\ Poll
    /\ last' = Did("_loginFail")
    /\ UNCHANGED <<_data, cache, writing, posting, fresh, config, _wiki>>

\* main.js:93-95: _loginFail only logs.
_loginFail ==
    /\ pc = "login"
    /\ pc' = "loginFailed"
    /\ last' = Did("_loginFail")
    /\ UNCHANGED <<_data, _interval, cache, fetching, writing, posting,
                   fresh, config, _wiki>>

\* Nothing of an earlier poll cycle is outstanding.
Idle == fetching = 0 /\ writing = <<>> /\ posting = 0

\* main.js:81-84 and 100-118: the interval timer fires and runs _poll,
\* whatever is still outstanding.  `overlap' is whether the timer's period
\* lets a tick come before the earlier cycle is over.
_poll(overlap) ==
    /\ _interval = "set"
    /\ fetching < MaxInFlight
    /\ overlap \/ Idle
    /\ Poll
    /\ last' = Did("_poll")
    /\ UNCHANGED <<pc, _data, _interval, cache, writing, posting,
                   fresh, config, _wiki>>

\* Mutant of _pollFail: the handler gives up polling.
PollFailStopsTimer ==
    /\ fetching > 0
    /\ fetching' = fetching - 1
    /\ _interval' = "cleared"
    /\ last' = Did("_pollFail")
    /\ UNCHANGED <<pc, _data, cache, writing, posting, fresh, config, _wiki>>

\* main.js:172-174: the GET failed; _pollFail only logs.
_pollFail ==
    /\ fetching > 0
    /\ fetching' = fetching - 1
    /\ last' = Did("_pollFail")
    /\ UNCHANGED <<pc, _data, _interval, cache, writing, posting,
                   fresh, config, _wiki>>

\* Mutant of _callback: every record whose title has an entry is given to
\* _post, whatever the diff says, and _post does not look the status up in
\* DATA.
CallbackPostsEveryRecord(pages) ==
    /\ fetching > 0
    /\ Len(writing) < MaxPending
    /\ posting < MaxPending
    /\ fetching' = fetching - 1
    /\ LET cold == ~Truthy(_data)
           r == Loop(pages, Keys(pages), IF cold THEN pages ELSE _data,
                     <<>>, EmptyObj)
           known == SelectSeq(Keys(pages), LAMBDA k :
                        Truthy(Get(_data, pages[k].page_title)))
           embeds == [j \in 1..Len(known) |->
                        <<pages[known[j]].page_title,
                          pages[known[j]].latestRevision.revisionId,
                          pages[known[j]].latestRevision.statusKey>>]
           post == Len(embeds) > 0
       IN  /\ _data' = r.data
           /\ posting' = IF post THEN posting + 1 ELSE posting
           /\ writing' = Append(writing, Stringify(r.data))
           /\ last' = [op |-> "_callback", pages |-> pages,
                       embeds |-> embeds,
                       decision |-> r.decision, returned |-> r.returned,
                       first |-> fresh,
                       started |->
                           (IF post THEN <<"POST">> ELSE <<>>) \o
                           <<"writeFile">>,
                       threw |-> FALSE, statusCode |-> 0, branch |-> ""]
    /\ fresh' = FALSE
    /\ UNCHANGED <<pc, _interval, cache, config, _wiki>>

\* main.js:124-166: _callback on the response whose jsPages is `pages'.
\* _post (main.js:180-205) starts one POST carrying all of embeds.  On a cold
\* start (main.js:130-132) this._data is the pages object itself, so the
\* snapshot keeps the fetched records under their page ids next to the
\* entries the loop adds under the titles.  MaxPending caps the writes and
\* the POSTs outstanding when a response is handled.  The call of _post
\* (main.js:158-160) comes before the call of fs.writeFile (main.js:161-165).
\* _post reads DATA[status][1] for every embed (main.js:190) before it makes
\* the request: an embed whose status has no entry in DATA throws a TypeError
\* there.  A TypeError in the loop or in _post leaves _callback with
\* this._data as far as the loop got, no POST and no write; the promise chain
\* of _poll (main.js:117) hands it to _pollFail, which logs.
_callback(pages) ==
    /\ fetching > 0
    /\ Len(writing) < MaxPending
    /\ posting < MaxPending
    /\ fetching' = fetching - 1
    /\ LET cold == ~Truthy(_data)
           r == Loop(pages, Keys(pages), IF cold THEN pages ELSE _data,
                     <<>>, EmptyObj)
           call == ~r.returned /\ ~r.threw /\ Len(r.embeds) > 0
           threw == \/ r.threw
                    \/ /\ call
                       /\ \E k \in 1..Len(r.embeds) :
                            r.embeds[k][3] \notin DOMAIN DATA
           post == call /\ ~threw
           left == r.returned \/ threw
       IN  /\ _data' = r.data
           /\ posting' = IF post THEN posting + 1 ELSE posting
           /\ writing' = IF left THEN writing
                         ELSE Append(writing, Stringify(r.data))
           /\ last' = [op |-> "_callback", pages |-> pages,
                       embeds |-> IF post THEN r.embeds ELSE <<>>,
                       decision |-> r.decision, returned |-> r.returned,
                       first |-> fresh,
                       started |->
                           (IF post THEN <<"POST">> ELSE <<>>) \o
                           (IF left THEN <<>> ELSE <<"writeFile">>),
                       threw |-> threw, statusCode |-> 0, branch |-> ""]
    /\ fresh' = FALSE
    /\ UNCHANGED <<pc, _interval, cache, config, _wiki>>

\* s without its i-th element.
Remove(s, i) == [j \in 1..(Len(s) - 1) |-> IF j < i THEN s[j] ELSE s[j + 1]]

\* main.js:161-165 and 241-245: a writeFile completes and _fileCallback runs.
\* Without an error the file holds the text; with one (which is logged) the
\* file is as it was, or was truncated by the open and holds no valid JSON.
_fileCallback(error) ==
    \E i \in 1..Len(writing) :
        /\ writing' = Remove(writing, i)
        /\ cache' \in IF error THEN {cache, BadFile} ELSE {File(writing[i])}
        /\ last' = Did(IF error THEN "_fileCallback error" ELSE "_fileCallback")
        /\ UNCHANGED <<pc, _data, _interval, fetching, posting,
                       fresh, config, _wiki>>

\* main.js:181-204: a webhook POST succeeded.
Delivered ==
    /\ posting > 0
    /\ posting' = posting - 1
    /\ last' = Did("delivered")
    /\ UNCHANGED <<pc, _data, _interval, cache, fetching, writing,
                   fresh, config, _wiki>>

\* The statusCode of a failure without a response (a network error):
\* error.statusCode is undefined, which no comparison of main.js:212-233
\* matches, no more than 0.
NoResponse == 0
\* The status codes of the failed POSTs.
StatusCodes == {NoResponse, 302, 400, 404, 429, 499, 500, 503, 599}

\* a / b === q of JavaScript for integers a, b, q: the division is the
\* floating-point one, so the quotient is the integer q only for a = q * b.
DivIs(a, b, q) == a = q * b

\* main.js:212-233: the branch of _discordError that logs the failure.
Branch(statusCode) ==
    IF DivIs(statusCode, 100, 4) THEN "4XX"
    ELSE IF DivIs(statusCode, 100, 5) THEN "5XX"
    ELSE "unknown"

\* Mutant of _discordError: the handler sends the failed POST again.
DiscordErrorRetries(statusCode) ==
    /\ posting > 0
    /\ last' = [Did("_discordError") EXCEPT !.statusCode = statusCode,
                                           !.branch = Branch(statusCode)]
    /\ UNCHANGED <<pc, _data, _interval, cache, fetching, writing, posting,
                   fresh, config, _wiki>>

\* main.js:211-235: a webhook POST failed with `statusCode'; _discordError
\* only logs, in one of its three branches.
_discordError(statusCode) ==
    /\ posting > 0
    /\ posting' = posting - 1
    /\ last' = [Did("_discordError") EXCEPT !.statusCode = statusCode,
                                           !.branch = Branch(statusCode)]
    /\ UNCHANGED <<pc, _data, _interval, cache, fetching, writing,
                   fresh, config, _wiki>>

\* Mutant of _finish: the handler logs and leaves the timer armed.
FinishKeepsTimer ==
    /\ pc = "running"
    /\ last' = Did("_finish")
    /\ UNCHANGED <<pc, _data, _interval, cache, fetching, writing, posting,
                   fresh, config, _wiki>>

\* main.js:85 and 250-253: SIGINT runs _finish, which clears the timer.
_finish ==
    /\ pc = "running"
    /\ _interval' = "cleared"
    /\ last' = Did("_finish")
    /\ UNCHANGED <<pc, _data, cache, fetching, writing, posting,
                   fresh, config, _wiki>>

\* main.js:256 and 33-50: the process ends (it exits once _finish has cleared
\* the timer and nothing is outstanding, or it is killed) and is started
\* again.  Nothing in memory survives; cache.json does, and a writeFile cut
\* short by the exit has left the file as it was, written, or truncated.
Restart ==
    /\ pc # "login"
    /\ pc' = "login"
    /\ _data' = Undefined
    /\ _interval' = "unset"
    /\ cache' \in {cache} \cup {File(writing[i]) : i \in 1..Len(writing)}
                       \cup (IF writing = <<>> THEN {} ELSE {BadFile})
    /\ fetching' = 0
    /\ writing' = <<>>
    /\ posting' = 0
    /\ fresh' = TRUE
    /\ _wiki' = Undefined
    /\ last' = Did("Restart")
    /\ UNCHANGED config

\* ------------------------------------------------------- specifications
\* The whole life of the process on a wiki with one script page: cold start
\* on a missing or unreadable cache.json, polls that overlap, failures of
\* every request, SIGINT, and restarts on the cache.json the earlier run left.
Init == Start({NoFile, BadFile})

Next ==
    \/ _init
    \/ _loginFail
    \/ _poll(TRUE)
    \/ _pollFail
    \/ \E pages \in Responses1 : _callback(pages)
    \/ \E error \in BOOLEAN : _fileCallback(error)
    \/ Delivered
    \/ _discordError(NoResponse)
    \/ _finish
    \/ Restart

Spec == Init /\ [][Next]_vars

\* The diff of _callback on a wiki with two script pages: the process starts
\* on the cache.json an earlier run left, the timer's period is longer than a
\* poll cycle, and the disk takes every write.
InitDiff == Start({File(text) : text \in Snapshots})

NextDiff ==
    \/ _init
    \/ _poll(FALSE)
    \/ _pollFail
    \/ \E pages \in Responses : _callback(pages)
    \/ _fileCallback(FALSE)
    \/ Delivered
    \/ _discordError(NoResponse)

SpecDiff == InitDiff /\ [][NextDiff]_vars

\* The diff of _callback on a wiki whose one script page is at the revisions
\* around 7: the process starts on a cache.json that holds the page at
\* revision 7, awaiting review.
ExampleRevs == {6, 7, 8}
ExampleResponses ==
    {EmptyObj} \cup
    {[i \in {"1"} |-> Page(i, r, s)] : r \in ExampleRevs, s \in Status}

InitExample == Start({File([t \in {TitleOf["1"]} |-> Entry(7, "awaiting")])})

NextExample ==
    \/ _init
    \/ _poll(FALSE)
    \/ _pollFail
    \/ \E pages \in ExampleResponses : _callback(pages)
    \/ _fileCallback(FALSE)
    \/ Delivered
    \/ _discordError(NoResponse)

SpecExample == InitExample /\ [][NextExample]_vars

\* The diff of _callback on responses with malformed records: a record whose
\* statusKey is outside the enumeration, and a record without latestRevision.
\* The process starts on a cache.json that holds both pages awaiting review.
MalformedRecords(i) ==
    {Page(i, r, s) : r \in Revs, s \in {"live", "bogus"}}
        \cup {[page_title |-> TitleOf[i]]}
MalformedResponses ==
    UNION { {pages \in [S -> UNION {MalformedRecords(i) : i \in S}] :
                \A i \in S : pages[i] \in MalformedRecords(i)} :
            S \in SUBSET Ids }

InitMalformed ==
    Start({File([t \in Titles |-> Entry(r, "awaiting")]) : r \in Revs})

NextMalformed ==
    \/ _init
    \/ _poll(FALSE)
    \/ _pollFail
    \/ \E pages \in MalformedResponses : _callback(pages)
    \/ _fileCallback(FALSE)
    \/ Delivered
    \/ _discordError(NoResponse)

SpecMalformed == InitMalformed /\ [][NextMalformed]_vars

\* The start of the process under every configuration of Configs, on a
\* wiki that answers every poll with no script page.
InitConfig == StartWith({NoFile}, Configs)

NextConfig ==
    \/ _init
    \/ _loginFail
    \/ _poll(TRUE)
    \/ _pollFail
    \/ _callback(EmptyObj)
    \/ _fileCallback(FALSE)
    \/ _finish

SpecConfig == InitConfig /\ [][NextConfig]_vars

\* The failures of the webhook: a wiki with one script page whose changes
\* are posted, and a webhook that fails with every status code of StatusCodes.
InitDiscord == Start({NoFile})

NextDiscord ==
    \/ _init
    \/ _poll(FALSE)
    \/ _pollFail
    \/ \E pages \in Responses1 : _callback(pages)
    \/ _fileCallback(FALSE)
    \/ Delivered
    \/ \E statusCode \in StatusCodes : _discordError(statusCode)

SpecDiscord == InitDiscord /\ [][NextDiscord]_vars

\* ------------------------------------------------------------ properties
\* The step is a run of _callback; last' holds the response it handled.
CallbackStep == last'.op = "_callback"
\* The titles of the records of a response.
TitlesIn(pages) == {pages[i].page_title : i \in DOMAIN pages}
\* The {rev, status} of the record of a response that has title t.
RecordOf(pages, t) ==
    LET i == CHOOSE k \in DOMAIN pages : pages[k].page_title = t
    IN  Entry(pages[i].latestRevision.revisionId,
              pages[i].latestRevision.statusKey)
\* The handler described by l gave _post an embed for title t.
Notified(l, t) == \E k \in 1..Len(l.embeds) : l.embeds[k][1] = t
\* The regression rule of the design: a lower revision, or the same revision
\* with a status that moved backwards.
IsRegression(prev, rec) ==
    \/ rec.rev < prev.rev
    \/ /\ rec.rev = prev.rev
       /\ \/ prev.status \in {"live", "rejected"} /\ rec.status = "awaiting"
          \/ prev.status # "unsubmitted" /\ rec.status = "unsubmitted"
\* The notify-worthiness rule of the design.
IsNotifyWorthy(prev, rec) ==
    (rec.rev # prev.rev \/ rec.status # prev.status) /\ rec.status # "unsubmitted"

\* C1: every fetched record whose title has no entry in the snapshot is
\* written into the snapshot as {rev, status} by the cycle, and no
\* notification is emitted for its title.
C1_SeedWrittenSilently ==
    [][CallbackStep =>
        \A t \in TitlesIn(last'.pages) :
            ~Truthy(Get(_data, t)) =>
                /\ Get(_data', t) = RecordOf(last'.pages, t)
                /\ ~Notified(last', t)]_vars

\* C2: a fetched record whose revision is lower than the stored revision of
\* its title leaves the stored entry as it was and emits no notification for
\* the title.
C2_LowerRevisionIgnored ==
    [][CallbackStep =>
        \A t \in TitlesIn(last'.pages) :
            (Truthy(Get(_data, t))
                /\ RecordOf(last'.pages, t).rev < Get(_data, t).rev) =>
                /\ Get(_data', t) = Get(_data, t)
                /\ ~Notified(last', t)]_vars

\* C2 witness: a cycle has handled a record whose revision is below the one
\* the snapshot holds for its title.
C2_Witness ==
    /\ last.op = "_callback"
    /\ \E t \in TitlesIn(last.pages) :
        /\ Truthy(Get(_data, t))
        /\ RecordOf(last.pages, t).rev < Get(_data, t).rev

\* C3: with equal revisions, a stored status of live or rejected and a fetched
\* status of awaiting, the stored entry keeps its status and no notification
\* is emitted.
C3_BackwardStatusIgnored ==
    [][CallbackStep =>
        \A t \in TitlesIn(last'.pages) :
            (Truthy(Get(_data, t))
                /\ RecordOf(last'.pages, t).rev = Get(_data, t).rev
                /\ Get(_data, t).status \in {"live", "rejected"}
                /\ RecordOf(last'.pages, t).status = "awaiting") =>
                /\ Get(_data', t).status = Get(_data, t).status
                /\ ~Notified(last', t)]_vars

\* C4: for a fetched record with a stored entry that is not a regression, a
\* notification is emitted exactly when revision or status differ from the
\* stored ones and the fetched status is not unsubmitted.
C4_NotifiedIffNotifyWorthy ==
    [][CallbackStep =>
        \A t \in TitlesIn(last'.pages) :
            (Truthy(Get(_data, t))
                /\ ~IsRegression(Get(_data, t), RecordOf(last'.pages, t))) =>
                (Notified(last', t) <=>
                    IsNotifyWorthy(Get(_data, t), RecordOf(last'.pages, t)))]_vars

\* C5: a fetched record whose status is unsubmitted never gets a
\* notification, whatever the snapshot holds.
C5_UnsubmittedSilent ==
    last.op = "_callback" =>
        \A t \in TitlesIn(last.pages) :
            RecordOf(last.pages, t).status = "unsubmitted" => ~Notified(last, t)

\* C5 witness: a cycle stored an unsubmitted record over an entry of its
\* title while it notified another title of the same response.
C5_Witness ==
    /\ last.op = "_callback"
    /\ ~last.returned
    /\ \E t, u \in TitlesIn(last.pages) :
        /\ RecordOf(last.pages, t).status = "unsubmitted"
        /\ last.decision[t] = "SilentUpdate"
        /\ Get(_data, t) = RecordOf(last.pages, t)
        /\ Notified(last, u)

\* C6: a poll that returns, for every title it lists, the {rev, status} the
\* snapshot already holds starts no POST and leaves the snapshot as it was;
\* the state after it being the state before it, so does every repetition.
C6_IdenticalPollIdempotent ==
    [][(CallbackStep
            /\ \A t \in TitlesIn(last'.pages) :
                Get(_data, t) = RecordOf(last'.pages, t)) =>
        /\ posting' = posting
        /\ last'.embeds = <<>>
        /\ _data' = _data]_vars

\* C6 witness: a cycle handled a response of two records, none unsubmitted,
\* and found both equal to the stored entries.
C6_Witness ==
    /\ last.op = "_callback"
    /\ TitlesIn(last.pages) = Titles
    /\ \A t \in Titles :
        /\ RecordOf(last.pages, t).status # "unsubmitted"
        /\ last.decision[t] = "SilentUpdate"
        /\ Get(_data, t) = RecordOf(last.pages, t)

\* C7: a cycle starts at most one POST, and the POST carries exactly the
\* records that overwrote a stored entry with a notify-worthy change, whatever
\* the other records of the response are.
C7_OnePostWithEveryUpdate ==
    [][CallbackStep =>
        /\ posting' <= posting + 1
        /\ \A t \in TitlesIn(last'.pages) :
            Notified(last', t) <=>
                /\ Truthy(Get(_data, t))
                /\ Get(_data', t) = RecordOf(last'.pages, t)
                /\ IsNotifyWorthy(Get(_data, t), RecordOf(last'.pages, t))]_vars

\* C8: every cycle whose fetch succeeded ends by starting the write of the
\* snapshot to cache.json.
C8_EveryCycleSaves ==
    [][CallbackStep => writing' = Append(writing, Stringify(_data'))]_vars

\* C9: a failed fetch leaves the snapshot in memory and on disk as they were,
\* emits nothing, leaves the process running, and leaves the timer armed and
\* able to start the next poll.
C9_FetchFailureHarmless ==
    /\ [][last'.op = "_pollFail" =>
            /\ _data' = _data
            /\ cache' = cache
            /\ writing' = writing
            /\ posting' = posting
            /\ pc' = pc
            /\ _interval' = _interval]_vars
    /\ [](last.op = "_pollFail" =>
            /\ pc = "running"
            /\ last.embeds = <<>>
            /\ _interval = "set" => ENABLED _poll(TRUE))

\* C9 witness: a fetch has failed while the process held a snapshot that is
\* also on disk, with the timer armed.
C9_Witness ==
    /\ last.op = "_pollFail"
    /\ Truthy(_data)
    /\ cache = File(Stringify(_data))
    /\ _interval = "set"

\* C10: the timer never starts a fetch while the fetch, the save or the
\* notification of an earlier cycle is outstanding.
C10_NoOverlap ==
    [][fetching' = fetching + 1 => Idle]_vars

\* C11: every cycle leaves an entry in the snapshot for every title of the
\* response it handled, and once the snapshot exists no step removes a key
\* from it; so the snapshot covers every title fetched so far.
C11_SnapshotCoversEverySeenTitle ==
    [][/\ CallbackStep =>
            \A t \in TitlesIn(last'.pages) : Truthy(Get(_data', t))
       /\ Truthy(_data) => DOMAIN _data \subseteq DOMAIN _data']_vars

\* C12: once the login has failed the timer is not armed, no GET, no write
\* of cache.json and no POST is outstanding, no snapshot is held, and neither
\* _init nor a tick of the timer can run.
C12_LoginFailureStartsNothing ==
    pc = "loginFailed" =>
        /\ _interval = "unset"
        /\ fetching = 0
        /\ writing = <<>>
        /\ posting = 0
        /\ ~Truthy(_data)
        /\ ~ENABLED _init
        /\ ~ENABLED _poll(TRUE)

\* C12 witness: the login has failed.
C12_Witness ==
    pc = "loginFailed" /\ last.op = "_loginFail"

\* C13: when the process has started on a cache.json that holds a snapshot,
\* the first response it handles emits no notification for a title whose
\* fetched {rev, status} is the one cache.json holds for it.
C13_RestartDoesNotRenotify ==
    [][(CallbackStep /\ fresh /\ cache.state = "json") =>
        \A t \in TitlesIn(last'.pages) :
            Get(cache.text, t) = RecordOf(last'.pages, t) =>
                ~Notified(last', t)]_vars

\* C13 witness: a restarted process has handled its first response, and the
\* response had a record equal to the entry an earlier run saved for its
\* title, which the loop reached and left unnotified.
C13_Witness ==
    /\ last.op = "_callback"
    /\ last.first
    /\ cache.state = "json"
    /\ \E t \in TitlesIn(last.pages) :
        /\ Get(cache.text, t) = RecordOf(last.pages, t)
        /\ t \in DOMAIN last.decision
        /\ last.decision[t] = "SilentUpdate"

\* C14: when _init runs with cache.json missing, the process starts without
\* a snapshot, arms the timer and polls; when it runs with a cache.json that
\* is not valid JSON, it neither arms the timer nor polls.
C14_CorruptCacheHaltsStartup ==
    [][last'.op = "_init" =>
        /\ cache.state = "absent" =>
            /\ ~Truthy(_data')
            /\ _interval' = "set"
            /\ fetching' = fetching + 1
        /\ cache.state = "corrupt" =>
            /\ _interval' # "set"
            /\ fetching' = fetching]_vars

\* C15: _finish leaves the timer cleared, and while the process lives on
\* with the timer cleared no step arms it again or starts a GET.
C15_SigintStopsPolling ==
    /\ [][last'.op = "_finish" => _interval' = "cleared"]_vars
    /\ [][(_interval = "cleared" /\ last'.op # "Restart") =>
            /\ _interval' = "cleared"
            /\ fetching' <= fetching]_vars

\* C15 witness: after SIGINT the process has drained what was outstanding
\* and has handled a response on the way.
C15_Witness ==
    /\ _interval = "cleared"
    /\ pc = "running"
    /\ Idle
    /\ ~fresh

\* C16: after a cycle, every record of the response that is not a
\* regression against the entry of its title (or whose title had no entry)
\* is the stored entry of its title, also when another record of the same
\* response is stale.
C16_NonStaleRecordsStored ==
    [][CallbackStep =>
        \A t \in TitlesIn(last'.pages) :
            (Truthy(Get(_data, t)) =>
                ~IsRegression(Get(_data, t), RecordOf(last'.pages, t))) =>
                Get(_data', t) = RecordOf(last'.pages, t)]_vars

\* C17: a fetched record with the stored revision, a stored status other
\* than unsubmitted and a fetched status of unsubmitted leaves the stored
\* entry as it was and emits no notification.
C17_BackToUnsubmittedIgnored ==
    [][CallbackStep =>
        \A t \in TitlesIn(last'.pages) :
            (Truthy(Get(_data, t))
                /\ RecordOf(last'.pages, t).rev = Get(_data, t).rev
                /\ Get(_data, t).status # "unsubmitted"
                /\ RecordOf(last'.pages, t).status = "unsubmitted") =>
                /\ Get(_data', t) = Get(_data, t)
                /\ ~Notified(last', t)]_vars

\* C18: with the stored entry {rev 7, awaiting} of A.js, a response whose
\* one record is A.js at revision 7, unsubmitted, takes the SilentUpdate
\* branch: the entry becomes {rev 7, unsubmitted}, nothing is given to _post
\* and no POST is started.
C18_ExampleSilentUpdate ==
    [][(CallbackStep
            /\ Get(_data, "A.js") = Entry(7, "awaiting")
            /\ last'.pages = [i \in {"1"} |-> Page(i, 7, "unsubmitted")]) =>
        /\ Get(_data', "A.js") = Entry(7, "unsubmitted")
        /\ last'.decision = [t \in {"A.js"} |-> "SilentUpdate"]
        /\ last'.embeds = <<>>
        /\ posting' = posting]_vars

\* C18 witness: the first response the process handled after it loaded
\* {A.js: {rev 7, awaiting}} was A.js at revision 7, unsubmitted, and the
\* entry is now {rev 7, unsubmitted} while cache.json still has the old one.
C18_Witness ==
    /\ last.op = "_callback"
    /\ last.first
    /\ last.pages = [i \in {"1"} |-> Page(i, 7, "unsubmitted")]
    /\ cache = File([t \in {"A.js"} |-> Entry(7, "awaiting")])
    /\ Get(_data, "A.js") = Entry(7, "unsubmitted")

\* C19: a cycle that starts the POST of its notifications has started the
\* write of cache.json before it.
C19_SaveStartedBeforeDelivery ==
    [][CallbackStep =>
        \A i \in 1..Len(last'.started) :
            last'.started[i] = "POST" =>
                \E j \in 1..(i - 1) : last'.started[j] = "writeFile"]_vars

\* C20: a failed POST is gone after _discordError and nothing else has
\* changed: the snapshot in memory and on disk, the timer and the requests
\* outstanding are as they were, and an armed timer can start the next poll
\* (within the bound on the GETs outstanding).
\* Every cycle, so every later one, starts at most one POST, and each of its
\* embeds is a record of its own response that differs from the entry the
\* snapshot held for its title.
C20_DeliveryFailureOnlyLogged ==
    /\ [][last'.op = "_discordError" =>
            /\ posting' = posting - 1
            /\ _data' = _data
            /\ cache' = cache
            /\ writing' = writing
            /\ fetching' = fetching
            /\ pc' = pc
            /\ _interval' = _interval]_vars
    /\ [][CallbackStep =>
            /\ posting' <= posting + 1
            /\ \A k \in 1..Len(last'.embeds) :
                \E t \in TitlesIn(last'.pages) :
                    /\ last'.embeds[k] =
                        <<t, RecordOf(last'.pages, t).rev,
                          RecordOf(last'.pages, t).status>>
                    /\ Truthy(Get(_data, t))
                    /\ Get(_data, t) # RecordOf(last'.pages, t)]_vars
    /\ [](last.op = "_discordError" =>
            /\ pc = "running"
            /\ Truthy(_data)
            /\ (_interval = "set" /\ fetching < MaxInFlight) =>
                    ENABLED _poll(TRUE))

\* C20 witness: a POST has failed while the timer is armed and the GET of a
\* later cycle is outstanding, with nothing else pending.
C20_Witness ==
    /\ last.op = "_discordError"
    /\ _interval = "set"
    /\ fetching > 0
    /\ posting = 0
    /\ writing = <<>>

\* C21: the first response handled on a cold start (no snapshot in memory)
\* leaves as snapshot exactly the mapping from each title of the response to
\* the {rev, status} of its record, and starts the write of that mapping.
C21_ColdStartSnapshotExact ==
    [][(CallbackStep /\ ~Truthy(_data)) =>
        /\ _data' = [t \in TitlesIn(last'.pages) |-> RecordOf(last'.pages, t)]
        /\ writing' = Append(writing, _data')]_vars

\* A fetched record has its latestRevision and a status of the enumeration.
WellFormed(page) ==
    /\ "latestRevision" \in DOMAIN page
    /\ page.latestRevision.statusKey \in Status

\* C22: the snapshot never holds an entry whose status is missing or outside
\* the enumeration, and a cycle whose response has a malformed record leaves
\* no entry of a title changed to a status other than unsubmitted without a
\* notification for the title.
C22_MalformedRecordFailsFast ==
    /\ [](Truthy(_data) =>
            \A t \in Titles \cap DOMAIN _data : _data[t].status \in Status)
    /\ [][(CallbackStep
            /\ \E i \in DOMAIN last'.pages : ~WellFormed(last'.pages[i])) =>
            \A t \in Titles :
                (Truthy(Get(_data, t))
                    /\ Get(_data', t) # Get(_data, t)
                    /\ Get(_data', t).status # "unsubmitted") =>
                    Notified(last', t)]_vars

\* C23: while the process lives, no step lowers the revision the snapshot
\* in memory holds for a title, whatever response, failure or completion
\* the step handles and in whatever order overlapping polls are answered.
C23_RevisionNeverDecreases ==
    [][last'.op # "Restart" =>
        \A t \in Titles :
            Truthy(Get(_data, t)) =>
                /\ Truthy(Get(_data', t))
                /\ Get(_data', t).rev >= Get(_data, t).rev]_vars

\* C23 witness: with the GET of an overlapping poll still outstanding, a
\* response with a revision below the stored one has been handled.
C23_Witness ==
    /\ last.op = "_callback"
    /\ last.returned
    /\ fetching > 0
    /\ \E t \in TitlesIn(last.pages) :
        /\ Truthy(Get(_data, t))
        /\ Get(_data, t).rev > RecordOf(last.pages, t).rev

\* C24: a cycle whose response has a record with a revision below the
\* stored one of its title changes no entry of the snapshot, gives nothing
\* to _post, starts no POST and starts no write of cache.json.
C24_StaleResponseDiscardedWhole ==
    [][(CallbackStep
            /\ \E t \in TitlesIn(last'.pages) :
                /\ Truthy(Get(_data, t))
                /\ RecordOf(last'.pages, t).rev < Get(_data, t).rev) =>
        /\ _data' = _data
        /\ last'.embeds = <<>>
        /\ posting' = posting
        /\ writing' = writing]_vars

\* The base URL the design gives for a configuration: a wiki with a dot is
\* split into (sub, lang) and gives https://sub.domain/lang; otherwise a
\* configured language gives https://wiki.domain/lang, and no language
\* https://wiki.domain.
DesignUrl(cfg) ==
    IF Len(cfg.wiki) > 1
    THEN Url("https", <<cfg.wiki[1], cfg.domain>>, <<cfg.wiki[2]>>)
    ELSE IF cfg.lang # ""
    THEN Url("https", cfg.wiki \o <<cfg.domain>>, <<cfg.lang>>)
    ELSE Url("https", cfg.wiki \o <<cfg.domain>>, <<>>)

\* C25: for every configuration, _init leaves as this._wiki the base URL the
\* design gives for it, with the https scheme in all three cases.
C25_BaseUrlResolved ==
    [][last'.op = "_init" =>
        /\ _wiki' = DesignUrl(config)
        /\ _wiki'.scheme = "https"]_vars

\* C26: _discordError logs a failure whose status code is in 400..499 in its
\* 4XX branch, one whose status code is in 500..599 in its 5XX branch, and
\* only the other failures in its unknown branch.
C26_ErrorBranchByStatusClass ==
    last.op = "_discordError" =>
        /\ last.statusCode \in 400..499 => last.branch = "4XX"
        /\ last.statusCode \in 500..599 => last.branch = "5XX"
        /\ last.branch = "unknown" => last.statusCode \notin 400..599

====
